---- MODULE Spec2Model ----
(***************************************************************************)
(* Model of src/app.py: the decklist parser, the EDHRec staple diff, the   *)
(* Scryfall price enrichment loop and the YouTube watchlist, as one run of *)
(* the Streamlit script after "Analyze Deck" is clicked.                   *)
(*                                                                         *)
(* A Python str is a sequence of one-character strings, so that strip,     *)
(* lower, replace and the two regular expressions are computed character   *)
(* by character.  A price is a number of cents; None is the string "None". *)
(***************************************************************************)
EXTENDS Integers, Sequences, FiniteSets, TLC

VARIABLES commander_input, yt_key, raw_decklist, pc, my_deck_lower,
          edhrec_cards, missing_staples, i, total_cost, shown, messages,
          calls, bare

vars == <<commander_input, yt_key, raw_decklist, pc, my_deck_lower,
          edhrec_cards, missing_staples, i, total_cost, shown, messages,
          calls, bare>>

\* ---------------------------------------------------------------- strings

Range(s) == {s[k] : k \in DOMAIN s}

\* characters str.strip() removes and the regular expressions' \s matches
Whitespace == {" ", "\t", "\n"}

\* the regular expressions' \d
Digits == {"0", "1", "2", "3", "4", "5", "6", "7", "8", "9"}

UpperCase == <<"A","B","C","D","E","F","G","H","I","J","K","L","M",
               "N","O","P","Q","R","S","T","U","V","W","X","Y","Z">>

LowerCase == <<"a","b","c","d","e","f","g","h","i","j","k","l","m",
               "n","o","p","q","r","s","t","u","v","w","x","y","z">>

LowerChar(c) ==
    IF \E k \in DOMAIN UpperCase : UpperCase[k] = c
    THEN LowerCase[CHOOSE k \in DOMAIN UpperCase : UpperCase[k] = c]
    ELSE c

\* str.lower()
Lower(s) == [k \in DOMAIN s |-> LowerChar(s[k])]

\* s[a:] for a 1-based first index
From(s, a) == SubSeq(s, a, Len(s))

\* str.strip()
Strip(s) ==
    LET keep == {k \in DOMAIN s : s[k] \notin Whitespace}
    IN  IF keep = {} THEN <<>>
        ELSE SubSeq(s, CHOOSE a \in keep : \A b \in keep : a <= b,
                       CHOOSE a \in keep : \A b \in keep : a >= b)

\* str.startswith(p)
StartsWith(s, p) == Len(s) >= Len(p) /\ SubSeq(s, 1, Len(p)) = p

RECURSIVE Replace(_, _)
\* str.replace(old, ''): every non-overlapping occurrence, left to right
Replace(s, old) ==
    IF Len(s) < Len(old) THEN s
    ELSE IF StartsWith(s, old) THEN Replace(From(s, Len(old) + 1), old)
    ELSE <<s[1]>> \o Replace(Tail(s), old)

RECURSIVE Split(_, _)
\* str.split(sep) for a one-character separator
Split(s, sep) ==
    LET at == {k \in DOMAIN s : s[k] = sep}
    IN  IF at = {} THEN <<s>>
        ELSE LET k == CHOOSE a \in at : \A b \in at : a <= b
             IN  <<SubSeq(s, 1, k - 1)>> \o Split(From(s, k + 1), sep)

\* ---------------------------------------------------------- parse_decklist

HeaderTokens == { <<"c","o","m","m","a","n","d","e","r">>,
                  <<"d","e","c","k">>,
                  <<"m","a","i","n","b","o","a","r","d">>,
                  <<"s","i","d","e","b","o","a","r","d">> }

CommentMarker == <<"/", "/">>

\* the lines the loop skips
IsSkipped(line) ==
    \/ line = <<>>
    \/ StartsWith(line, CommentMarker)
    \/ Lower(line) \in HeaderTokens

\* re.sub(r'^\d+x?\s+', '', line)
StripQuantity(line) ==
    LET nd == IF \E k \in DOMAIN line : line[k] \notin Digits
              THEN (CHOOSE k \in DOMAIN line :
                       /\ line[k] \notin Digits
                       /\ \A j \in 1..(k - 1) : line[j] \in Digits) - 1
              ELSE Len(line)
        nx == IF nd < Len(line) /\ line[nd + 1] = "x" THEN nd + 1 ELSE nd
        rest == From(line, nx + 1)
        ns == IF \E k \in DOMAIN rest : rest[k] \notin Whitespace
              THEN (CHOOSE k \in DOMAIN rest :
                       /\ rest[k] \notin Whitespace
                       /\ \A j \in 1..(k - 1) : rest[j] \in Whitespace) - 1
              ELSE Len(rest)
    IN  IF nd >= 1 /\ ns >= 1 THEN From(rest, ns + 1) ELSE line

\* the annotation pattern with the parenthesis only: r'\s+\(.*$'
StripAnnotation_ParenOnly(name) ==
    LET starts == {a \in DOMAIN name :
                     \E b \in a..(Len(name) - 1) :
                        /\ \A k \in a..b : name[k] \in Whitespace
                        /\ name[b + 1] = "("}
    IN  IF starts = {} THEN name
        ELSE SubSeq(name, 1, (CHOOSE a \in starts : \A b \in starts : a <= b) - 1)

\* re.sub(r'\s+[\(\[].*$', '', card_name)
StripAnnotation(name) ==
    LET starts == {a \in DOMAIN name :
                     \E b \in a..(Len(name) - 1) :
                        /\ \A k \in a..b : name[k] \in Whitespace
                        /\ name[b + 1] \in {"(", "["}}
    IN  IF starts = {} THEN name
        ELSE SubSeq(name, 1, (CHOOSE a \in starts : \A b \in starts : a <= b) - 1)

TagCMDR == <<"*", "C", "M", "D", "R", "*">>
TagF == <<"*", "F", "*">>
TagE == <<"*", "E", "*">>

\* card_name.replace('*CMDR*', '').replace('*F*', '').replace('*E*', '').strip()
StripTags(name) == Strip(Replace(Replace(Replace(name, TagCMDR), TagF), TagE))

\* one iteration of the loop body: the entries the line appends to deck
NormalizeLine(raw_line) ==
    LET line == Strip(raw_line)
        card_name == StripTags(StripAnnotation(StripQuantity(line)))
    IN  IF IsSkipped(line) THEN <<>>
        ELSE IF card_name # <<>> THEN <<Lower(card_name)>>
        ELSE <<>>

RECURSIVE ParseLines(_)
ParseLines(lines) ==
    IF lines = <<>> THEN <<>>
    ELSE NormalizeLine(Head(lines)) \o ParseLines(Tail(lines))

parse_decklist(raw_text) == ParseLines(Split(Strip(raw_text), "\n"))

\* ------------------------------------------------------ provider helpers
\* An optional value (None or a value, a JSON null or a string) is a sequence
\* of length 0 or 1, so that Python's truthiness test is "is not empty".

None == <<>>

\* re.sub(r'[^a-z0-9\s-]', '', name)
RECURSIVE KeepUrlChars(_)
KeepUrlChars(s) ==
    IF s = <<>> THEN <<>>
    ELSE (IF Head(s) \in Range(LowerCase) \cup Digits \cup Whitespace \cup {"-"}
          THEN <<Head(s)>> ELSE <<>>) \o KeepUrlChars(Tail(s))

format_commander_name(name) ==
    LET kept == KeepUrlChars(Lower(name))
    IN  [k \in DOMAIN kept |-> IF kept[k] = " " THEN "-" ELSE kept[k]]

WantedHeaders == {"Top Cards", "High Synergy Cards"}

RECURSIVE TopCards(_, _)
\* the loop in the try block of get_edhrec_recommendations: a KeyError ends
\* the traversal and keeps what was appended so far
TopCards(cardlists, top_cards) ==
    IF cardlists = <<>> THEN top_cards
    ELSE LET lst == Head(cardlists)
         IN  IF "header" \notin lst.keys THEN top_cards
             ELSE IF lst.header \in WantedHeaders
             THEN IF "cardviews" \notin lst.keys THEN top_cards
                  ELSE TopCards(Tail(cardlists), top_cards \o lst.cardviews)
             ELSE TopCards(Tail(cardlists), top_cards)

\* the value get_edhrec_recommendations returns for a response that did not raise
get_edhrec_recommendations(response) ==
    IF response.status_code # 200 THEN <<>>
    ELSE IF ~response.has_cardlists THEN <<>>
    ELSE TopCards(response.cardlists, <<>>)

\* the empty check left out
NoRecommendations_Never(cards) == FALSE

\* if not edhrec_cards
NoRecommendations(cards) == cards = <<>>

\* the membership test without the lower(): c not in my_deck_lower
IsMissing_CaseSensitive(c, deck) == c \notin Range(deck)

\* c.lower() not in my_deck_lower
IsMissing(c, deck) == Lower(c) \notin Range(deck)

RECURSIVE MissingStaples(_, _)
\* [c for c in edhrec_cards if c.lower() not in my_deck_lower]
MissingStaples(cards, deck) ==
    IF cards = <<>> THEN <<>>
    ELSE (IF IsMissing(Head(cards), deck) THEN <<Head(cards)>> ELSE <<>>)
         \o MissingStaples(Tail(cards), deck)

Cap == 10

\* missing_staples[:10]
Capped(staples) == SubSeq(staples, 1, IF Len(staples) < Cap THEN Len(staples) ELSE Cap)

\* get_scryfall_data for a response that did not raise: the body on 200, else None
get_scryfall_data(response) ==
    IF response.status_code = 200 THEN <<response.json>> ELSE None

\* card_data.get('prices', {}).get('usd')
UsdOf(card_data) == card_data[1].usd

\* price_val = float(price) if price else 0.0   (a price is a number of cents)
PriceVal(price) == IF price # <<>> THEN price[1] ELSE 0

\* the accumulation as an assignment: total_cost = price_val
AddCost_Overwrite(total, price) == PriceVal(price)

\* total_cost += price_val
AddCost(total, price) == total + PriceVal(price)

\* price_str = f"${price}" if price else "Price Unavailable"
PriceStr(price) == IF price # <<>> THEN "$" ELSE "Price Unavailable"

\* the input check with "and" for "or"
InputMissing_Both(commander, decklist) == commander = <<>> /\ decklist = <<>>

\* if not commander_input or not raw_decklist
InputMissing(commander, decklist) == commander = <<>> \/ decklist = <<>>

\* get_youtube_videos for a response that did not raise: the number of items
get_youtube_videos(response) ==
    IF response.status_code = 200 THEN response.items ELSE 0

\* ------------------------------------------------------------ the inputs

MaxDeckLines == 2
MaxShortRec == 2
MaxRecLen == 11

SeqsUpTo(S, n) == UNION {[1..k -> S] : k \in 0..n}

RECURSIVE Join(_)
\* the text whose lines are the given ones
Join(lines) ==
    IF lines = <<>> THEN <<>>
    ELSE IF Len(lines) = 1 THEN lines[1]
    ELSE lines[1] \o <<"\n">> \o Join(Tail(lines))

\* card names as the providers spell them
Ab == <<"A", "b">>
Cc == <<"C">>
De == <<"D", "e">>
Zz == <<"z">>

RecNames == {Ab, Cc, De, Zz}

\* lines a user pastes: "1 Ab", "Ab *F*", "2x C (X) 1", "// L", "de", " "
DeckLines == { <<"1", " ", "A", "b">>,
               <<"A", "b", " ", "*", "F", "*">>,
               <<"2", "x", " ", "C", " ", "(", "X", ")", " ", "1">>,
               <<"/", "/", " ", "L">>,
               <<"d", "e">>,
               <<" ">> }

DeckTexts == {Join(ls) : ls \in SeqsUpTo(DeckLines, MaxDeckLines)}

CommanderInputs == {<<>>, <<"K", "'", "n", " ", "B">>}

YtKeys == {<<>>, <<"k">>}

\* a recommendation list longer than the display cap
LongList(n) ==
    [k \in 1..n |-> IF k = Cap THEN De
                    ELSE IF k % 5 = 2 THEN Ab
                    ELSE IF k % 5 = 4 THEN Cc
                    ELSE Zz]

CardViews == SeqsUpTo(RecNames, MaxShortRec) \cup {LongList(n) : n \in (Cap - 1)..MaxRecLen}

CardList(h, cv) == [keys |-> {"header", "cardviews"}, header |-> h, cardviews |-> cv]

NoHeader == [keys |-> {"cardviews"}, header |-> "", cardviews |-> <<Ab>>]

NoCardViews == [keys |-> {"header"}, header |-> "High Synergy Cards", cardviews |-> <<>>]

EDHRecBodies ==
    {<<CardList("Top Cards", cv)>> : cv \in CardViews}
    \cup { <<CardList("Lands", <<Cc>>), CardList("High Synergy Cards", <<Ab>>)>>,
           <<CardList("Top Cards", <<Zz>>), CardList("High Synergy Cards", <<Ab, Cc>>)>>,
           <<CardList("Top Cards", <<Cc>>), NoHeader, CardList("High Synergy Cards", <<De>>)>>,
           <<CardList("Top Cards", <<Ab>>), NoCardViews>> }

\* what requests.get(url) does for the EDHRec page: raise, or return a response
EDHRecResponses ==
    {[raises |-> TRUE, status_code |-> 0, has_cardlists |-> FALSE, cardlists |-> <<>>],
     [raises |-> FALSE, status_code |-> 404, has_cardlists |-> FALSE, cardlists |-> <<>>],
     [raises |-> FALSE, status_code |-> 200, has_cardlists |-> FALSE, cardlists |-> <<>>]}
    \cup {[raises |-> FALSE, status_code |-> 200, has_cardlists |-> TRUE, cardlists |-> b] :
             b \in EDHRecBodies}

\* Scryfall's card objects by exact (case-insensitive) name: 'prices'.'usd' in
\* cents or null, and 'cmc'
CardDB ==
    [n \in {Lower(Ab), Lower(Cc), Lower(De)} |->
        IF n = Lower(Ab) THEN [usd |-> <<150>>, cmc |-> 2]
        ELSE IF n = Lower(Cc) THEN [usd |-> <<>>, cmc |-> 0]
        ELSE [usd |-> <<25>>, cmc |-> 1]]

NoCard == [usd |-> <<>>, cmc |-> 0]

\* what requests.get(url) does for a card: raise, a non-200 status, or the card
ScryfallResponses(card) ==
    {[raises |-> TRUE, status_code |-> 0, json |-> NoCard],
     [raises |-> FALSE, status_code |-> 404, json |-> NoCard]}
    \cup (IF Lower(card) \in DOMAIN CardDB
          THEN {[raises |-> FALSE, status_code |-> 200, json |-> CardDB[Lower(card)]]}
          ELSE {})

\* &maxResults=3
maxResults == 3

YouTubeResponses ==
    {[raises |-> TRUE, status_code |-> 0, items |-> 0],
     [raises |-> FALSE, status_code |-> 403, items |-> 0]}
    \cup {[raises |-> FALSE, status_code |-> 200, items |-> n] : n \in 0..maxResults}

\* --------------------------------------------------------- the script run

NoProbe == [kind |-> "run", name |-> <<>>]

Init ==
    /\ commander_input \in CommanderInputs
    /\ yt_key \in YtKeys
    /\ raw_decklist \in DeckTexts
    /\ pc = "idle"
    /\ my_deck_lower = <<>>
    /\ edhrec_cards = <<>>
    /\ missing_staples = <<>>
    /\ i = 0
    /\ total_cost = 0
    /\ shown = <<>>
    /\ messages = <<>>
    /\ calls = <<>>
    /\ bare = NoProbe

Msg(k, v) == [kind |-> k, value |-> v]

\* "Analyze Deck" clicked: the input check and parse_decklist
Analyze ==
    /\ pc = "idle"
    /\ IF InputMissing(commander_input, raw_decklist)
       THEN /\ messages' = Append(messages, Msg("error", 0))
            /\ pc' = "stopped"
            /\ UNCHANGED my_deck_lower
       ELSE /\ my_deck_lower' = parse_decklist(raw_decklist)
            /\ messages' = Append(messages, Msg("metric", Len(my_deck_lower')))
            /\ pc' = "fetch"
    /\ UNCHANGED <<commander_input, yt_key, raw_decklist, edhrec_cards,
                   missing_staples, i, total_cost, shown, calls, bare>>

\* get_edhrec_recommendations, the empty check and the diff
FetchEDHRec ==
    /\ pc = "fetch"
    /\ \E response \in EDHRecResponses :
         /\ calls' = Append(calls, [provider |-> "edhrec",
                                    arg |-> format_commander_name(commander_input),
                                    response |-> response])
         /\ IF response.raises
            THEN /\ pc' = "crashed"
                 /\ UNCHANGED <<edhrec_cards, missing_staples, messages, total_cost>>
            ELSE /\ edhrec_cards' = get_edhrec_recommendations(response)
                 /\ IF NoRecommendations(edhrec_cards')
                    THEN /\ messages' = Append(messages, Msg("warning", 0))
                         /\ pc' = "stopped"
                         /\ UNCHANGED <<missing_staples, total_cost>>
                    ELSE /\ missing_staples' = MissingStaples(edhrec_cards', my_deck_lower)
                         /\ IF missing_staples' # <<>>
                            THEN /\ total_cost' = 0
                                 /\ pc' = "enrich"
                                 /\ UNCHANGED messages
                            ELSE /\ messages' = Append(messages, Msg("complete", 0))
                                 /\ pc' = "youtube"
                                 /\ UNCHANGED total_cost
    /\ UNCHANGED <<commander_input, yt_key, raw_decklist, my_deck_lower, i,
                   shown, bare>>

\* one iteration of the loop over missing_staples[:10]; the last one falls
\* through to st.success
LookupPrice ==
    /\ pc = "enrich"
    /\ i < Len(Capped(missing_staples))
    /\ LET card == Capped(missing_staples)[i + 1]
       IN  \E response \in ScryfallResponses(card) :
             /\ calls' = Append(calls, [provider |-> "scryfall", arg |-> card,
                                        response |-> response])
             /\ IF response.raises
                THEN /\ pc' = "crashed"
                     /\ UNCHANGED <<i, total_cost, shown, messages>>
                ELSE LET card_data == get_scryfall_data(response)
                         last == (i + 1 = Len(Capped(missing_staples)))
                     IN  /\ IF card_data # <<>>
                            THEN /\ total_cost' = AddCost(total_cost, UsdOf(card_data))
                                 /\ shown' = Append(shown,
                                        [card |-> card,
                                         cmc |-> card_data[1].cmc,
                                         price_str |-> PriceStr(UsdOf(card_data)),
                                         price |-> UsdOf(card_data),
                                         col |-> i % 2])
                            ELSE UNCHANGED <<total_cost, shown>>
                         /\ i' = i + 1
                         /\ messages' = IF last
                                        THEN Append(messages, Msg("success", total_cost'))
                                        ELSE messages
                         /\ pc' = IF last THEN "youtube" ELSE "enrich"
    /\ UNCHANGED <<commander_input, yt_key, raw_decklist, my_deck_lower,
                   edhrec_cards, missing_staples, bare>>

\* the watchlist section
Watchlist ==
    /\ pc = "youtube"
    /\ IF yt_key # <<>>
       THEN \E response \in YouTubeResponses :
              /\ calls' = Append(calls, [provider |-> "youtube", arg |-> commander_input,
                                         response |-> response])
              /\ IF response.raises
                 THEN /\ pc' = "crashed"
                      /\ UNCHANGED messages
                 ELSE /\ messages' = Append(messages,
                            IF get_youtube_videos(response) > 0
                            THEN Msg("videos", get_youtube_videos(response))
                            ELSE Msg("no_videos", 0))
                      /\ pc' = "done"
       ELSE /\ messages' = Append(messages, Msg("no_key", 0))
            /\ pc' = "done"
            /\ UNCHANGED calls
    /\ UNCHANGED <<commander_input, yt_key, raw_decklist, my_deck_lower,
                   edhrec_cards, missing_staples, i, total_cost, shown, bare>>

Next == Analyze \/ FetchEDHRec \/ LookupPrice \/ Watchlist

Spec == Init /\ [][Next]_vars

\* ------------------------------------------- parse_decklist on single lines

MaxNameLen == 2

NameChars == {"a", "F", "2", "*", " "}

Deck == <<"D", "e", "c", "k">>

\* a card name as it is printed: not empty, no surrounding whitespace
PrintedNames ==
    {n \in SeqsUpTo(NameChars, MaxNameLen) \ {<<>>} : Strip(n) = n}
    \cup {Deck, Lower(Deck), <<"/", "/">>, <<"/", "/", "a">>, <<"2", "x">>,
          <<"F", "a", " ", "2">>}

\* no quantity prefix, no bracket or parenthesis annotation, no role/foil marker
IsBare(n) ==
    /\ StripQuantity(n) = n
    /\ Range(n) \cap {"(", "[", ")", "]"} = {}
    /\ Replace(n, TagCMDR) = n /\ Replace(n, TagF) = n /\ Replace(n, TagE) = n

BareNames == {n \in PrintedNames : IsBare(n)}

LeadSpaces == {<<>>, <<"\t", " ">>}
TrailSpaces == {<<>>, <<" ">>}

\* "", "1 ", "2x ", "10x" TAB
Quantities == {<<>>, <<"1", " ">>, <<"2", "x", " ">>, <<"1", "0", "x", "\t">>}

\* "", "*CMDR*", "*F* "
TagsBefore == {<<>>, TagCMDR, TagF \o <<" ">>}

\* "", "*F*", " *CMDR* *E*"
TagsAfter == {<<>>, TagF, <<" ">> \o TagCMDR \o <<" ">> \o TagE}

\* "", " (LCI) 123 *F*", TAB "[C19]"
Annotations == {<<>>,
                <<" ", "(", "L", "C", "I", ")", " ", "1", "2", "3", " ">> \o TagF,
                <<"\t", "[", "C", "1", "9", "]">>}

Decorations ==
    [lead : LeadSpaces, qty : Quantities, before : TagsBefore,
     after : TagsAfter, ann : Annotations, trail : TrailSpaces]

Decorate(n, d) == d.lead \o d.qty \o d.before \o n \o d.after \o d.ann \o d.trail

\* "(LCI) 123", "[C19]", "*F*", "*CMDR* *E*"
BareAnnotations == {<<"(", "L", "C", "I", ")", " ", "1", "2", "3">>,
                    <<"[", "C", "1", "9", "]">>,
                    TagF,
                    TagCMDR \o <<" ">> \o TagE}

\* lines that are a quantity prefix at most, and annotation
AnnotationOnlyLines ==
    {l \o q \o a \o t : l \in LeadSpaces, q \in Quantities,
                        a \in BareAnnotations, t \in TrailSpaces}

InitParse ==
    /\ \/ \E n \in BareNames, d \in Decorations :
             /\ raw_decklist = Decorate(n, d)
             /\ bare = [kind |-> "decorated", name |-> n]
       \/ \E a \in AnnotationOnlyLines :
             /\ raw_decklist = a
             /\ bare = [kind |-> "annotation", name |-> <<>>]
    /\ commander_input = <<>>
    /\ yt_key = <<>>
    /\ pc = "line"
    /\ my_deck_lower = <<>>
    /\ edhrec_cards = <<>>
    /\ missing_staples = <<>>
    /\ i = 0
    /\ total_cost = 0
    /\ shown = <<>>
    /\ messages = <<>>
    /\ calls = <<>>

\* my_deck_lower = parse_decklist(raw_decklist) on a one-line text
ParseLine ==
    /\ pc = "line"
    /\ my_deck_lower' = parse_decklist(raw_decklist)
    /\ pc' = "parsed"
    /\ UNCHANGED <<commander_input, yt_key, raw_decklist, edhrec_cards,
                   missing_staples, i, total_cost, shown, messages, calls, bare>>

NextParse == ParseLine

SpecParse == InitParse /\ [][NextParse]_vars

\* ------------------------------------------------------------ properties

ScryfallCalls == SelectSeq(calls, LAMBDA c : c.provider = "scryfall")

Reported(k) == \E m \in Range(messages) : m.kind = k

\* positions of the recommendation list whose lower-cased name is not in the deck
AbsentAt(R, D) == {k \in DOMAIN R : Lower(R[k]) \notin Range(D)}

\* C1: the missing-staple list is exactly the subsequence of the
\* recommendation list, order, duplicates and provider casing kept, of the
\* entries whose lower-cased form is not in the deck; every emitted entry is
\* absent from the deck and the list is empty when the deck has them all.
C1_DiffIsOrderedFilter ==
    LET K == AbsentAt(edhrec_cards, my_deck_lower)
    IN  /\ Len(missing_staples) = Cardinality(K)
        /\ \A k \in K : missing_staples[Cardinality({j \in K : j <= k})] = edhrec_cards[k]
        /\ \A j \in DOMAIN missing_staples :
              Lower(missing_staples[j]) \notin Range(my_deck_lower)
        /\ (K = {}) => (missing_staples = <<>>)

C1_Witness ==
    /\ pc = "enrich"
    /\ Len(edhrec_cards) > Cap
    /\ Len(missing_staples) < Len(edhrec_cards)
    /\ \E j, k \in DOMAIN missing_staples : j < k /\ missing_staples[j] = missing_staples[k]
    /\ \E j \in DOMAIN missing_staples : Lower(missing_staples[j]) # missing_staples[j]
    /\ Len(my_deck_lower) = 2

\* a lookup that raised or returned a status other than 200
LookupFailed(c) == c.provider = "scryfall" /\ (c.response.raises \/ c.response.status_code # 200)

\* C2: a pricing lookup that fails for one item never aborts the batch: the
\* failure does not end the run as an uncaught error, the remaining items of
\* the capped prefix are looked up and the total is reported.
C2_FailedLookupNeverAborts ==
    \A k \in DOMAIN calls :
        LookupFailed(calls[k]) =>
            /\ ~(pc = "crashed" /\ k = Len(calls))
            /\ (pc \in {"youtube", "done"}) =>
                   /\ Len(ScryfallCalls) = Len(Capped(missing_staples))
                   /\ Reported("success")

\* C3: the enrichment output has exactly one entry for each of the first
\* min(cap, length) missing staples, in the order of the diff; an item whose
\* lookup failed or returned no price is present, with price "unavailable".
C3_OneEntryPerCappedStaple ==
    Reported("success") =>
        /\ Len(shown) = Len(Capped(missing_staples))
        /\ \A k \in DOMAIN shown :
              /\ shown[k].card = Capped(missing_staples)[k]
              /\ (shown[k].price = <<>>) => (shown[k].price_str = "Price Unavailable")

RECURSIVE SumPriced(_)
\* the sum of the prices of the lookups that returned a card with a price
SumPriced(cs) ==
    IF cs = <<>> THEN 0
    ELSE (IF /\ ~Head(cs).response.raises
             /\ Head(cs).response.status_code = 200
             /\ Head(cs).response.json.usd # <<>>
          THEN Head(cs).response.json.usd[1] ELSE 0) + SumPriced(Tail(cs))

\* C4: the total, while it is accumulated and when it is reported, is the sum
\* of the prices of exactly the looked-up items, all among the first cap
\* entries of the missing staples, whose lookup succeeded with a price; a
\* failed lookup and a card without a price add 0.
C4_TotalIsSumOfPriced ==
    /\ total_cost = SumPriced(ScryfallCalls)
    /\ \A m \in Range(messages) : m.kind = "success" => m.value = SumPriced(ScryfallCalls)
    /\ Len(ScryfallCalls) <= Cap
    /\ \A k \in DOMAIN ScryfallCalls : ScryfallCalls[k].arg = missing_staples[k]

C4_Witness ==
    /\ Reported("success")
    /\ Len(missing_staples) > Cap
    /\ total_cost = 175
    /\ \E k \in DOMAIN calls : LookupFailed(calls[k])
    /\ \E k \in DOMAIN shown : shown[k].price = <<>>

\* C5: when the commander name or the deck text is missing, the run shows
\* the input error and stops; no provider is ever called in that run.
C5_InputErrorBeforeProviders ==
    (pc # "idle" /\ (commander_input = <<>> \/ raw_decklist = <<>>)) =>
        /\ pc = "stopped"
        /\ calls = <<>>
        /\ messages = <<Msg("error", 0)>>

C5_Witness ==
    /\ pc = "stopped"
    /\ commander_input # <<>>
    /\ raw_decklist = <<>>
    /\ yt_key # <<>>
    /\ messages = <<Msg("error", 0)>>

\* C6: when the recommendation provider returns an empty list the run warns
\* "no data found" and stops right after the fetch, with no pricing lookup
\* and no "deck is complete" message; "deck is complete" is reported only for
\* a non-empty recommendation list whose diff is empty.
C6_EmptyListIsNoData ==
    /\ (calls # <<>> /\ ~calls[1].response.raises /\ edhrec_cards = <<>>) =>
          /\ pc = "stopped"
          /\ Len(calls) = 1
          /\ messages[Len(messages)] = Msg("warning", 0)
          /\ ~Reported("complete")
    /\ Reported("complete") =>
          /\ edhrec_cards # <<>>
          /\ AbsentAt(edhrec_cards, my_deck_lower) = {}
          /\ ScryfallCalls = <<>>

C6_Witness ==
    /\ pc = "stopped"
    /\ Len(calls) = 1
    /\ calls[1].response.status_code = 200
    /\ calls[1].response.has_cardlists
    /\ edhrec_cards = <<>>
    /\ my_deck_lower # <<>>
    /\ Reported("warning")

\* C7: in every run that has a diff, pricing lookups are issued for exactly
\* the first min(10, length of diff) entries of the missing staples, one per
\* entry and in diff order, never for an entry past the tenth and never for
\* a recommended card that is in the deck.
C7_LookupsAreTheCappedPrefix ==
    LET n == Len(ScryfallCalls)
    IN  /\ n <= Len(Capped(missing_staples))
        /\ \A k \in 1..n : ScryfallCalls[k].arg = missing_staples[k]
        /\ \A k \in 1..n : Lower(ScryfallCalls[k].arg) \notin Range(my_deck_lower)
        /\ (pc \in {"youtube", "done", "crashed"} /\ missing_staples # <<>>) =>
               n = Len(Capped(missing_staples))

\* C9: the normalized deck is a set: no card name occurs in it twice, and the
\* number of cards reported is the number of distinct normalized names.
C9_DeckIsASet ==
    /\ Len(my_deck_lower) = Cardinality(Range(my_deck_lower))
    /\ \A m \in Range(messages) :
          m.kind = "metric" => m.value = Cardinality(Range(my_deck_lower))

\* the decorated names the parser is expected to recover: no asterisk, not a
\* section header, not a comment, not a quantity token
IsPlain(n) ==
    /\ "*" \notin Range(n)
    /\ Lower(n) \notin HeaderTokens
    /\ ~StartsWith(n, CommentMarker)
    /\ StripQuantity(n \o <<" ">>) = n \o <<" ">>

C10_AnnotationOnlyAddsNothing ==
    (pc = "parsed" /\ bare.kind = "annotation") => my_deck_lower = <<>>

====
